---- MODULE Spec2Model ----
(***************************************************************************)
(* Model of the user-feeds fetch client (FeedFetcherService): the retry    *)
(* loop around the transport request, the response interpreter             *)
(* (handleFetchResponse) and the article-level operations built on fetch.  *)
(***************************************************************************)
EXTENDS Integers, Sequences, FiniteSets, TLC

\* Largest explicit options.retries a caller passes to fetch.
MaxRetries == 2

\* Largest article set the normalization pipeline hands back.
MaxArticles == 2

\* options?.retries ?? 5
DefaultRetries == 5

----------------------------------------------------------------------------
(* JavaScript values that flow through fetch as the payload. *)

JsNull == [t |-> "null", s |-> ""]

JsUndefined == [t |-> "undefined", s |-> ""]

JsString(str) == [t |-> "string", s |-> str]

\* !value for the values above: null, undefined and "" are falsy.
Falsy(v) == v.t \in {"null", "undefined"} \/ (v.t = "string" /\ v.s = "")

----------------------------------------------------------------------------
(* FeedResponseRequestStatus, the tags of the envelope. *)

InternalError == "internal_error"

ParseError == "parse_error"

FetchError == "fetch_error"

BadStatusCode == "bad_status_code"

Pending == "pending"

Success == "success"

FetchTimeout == "fetch_timeout"

RecognizedTags ==
  {InternalError, ParseError, FetchError, BadStatusCode, Pending, Success,
   FetchTimeout}

\* A tag the service may send that the client does not know.
Tags == RecognizedTags \cup {"unknown_tag"}

\* Status codes the feed requests API answers with.
StatusCodes == {199, 200, 299, 300, 500}

\* Status codes of the origin, reported in the nested response object.
OriginCodes == {200, 429}

\* Bodies of the nested response object: an empty one and a document.
Bodies == {JsString(""), JsString("<rss/>")}

\* Messages of the errors the transport request rejects with.
Causes == {"ECONNREFUSED", "ETIMEDOUT"}

\* The object {} that stands in for a body that could not be decoded.
EmptyObject ==
  [ok |-> TRUE, requestStatus |-> "", hasResponse |-> FALSE,
   statusCode |-> 0, body |-> JsUndefined]

\* What body.json() does: it rejects (ok = FALSE) or yields an envelope,
\* with or without the nested response object.
DecodeFailure ==
  [ok |-> FALSE, requestStatus |-> "", hasResponse |-> FALSE,
   statusCode |-> 0, body |-> JsUndefined]

Envelopes ==
  {[ok |-> TRUE, requestStatus |-> tag, hasResponse |-> FALSE,
    statusCode |-> 0, body |-> JsUndefined] : tag \in Tags}
  \cup
  {[ok |-> TRUE, requestStatus |-> tag, hasResponse |-> TRUE,
    statusCode |-> c, body |-> b] :
      tag \in Tags, c \in OriginCodes, b \in Bodies}

JsonResults == {DecodeFailure} \cup Envelopes

----------------------------------------------------------------------------
(* Outcomes of the asynchronous functions: a returned value or a thrown    *)
(* error with its class and the parts its message is built from.           *)

NoMsg ==
  [text |-> "", status |-> 0, body |-> EmptyObject, tag |-> "",
   cause |-> "", code |-> 0, id |-> ""]

NoOutcome ==
  [r |-> "none", exc |-> "", msg |-> NoMsg, code |-> 0,
   value |-> JsUndefined, articles |-> <<>>]

Return(v) == [NoOutcome EXCEPT !.r = "return", !.value = v]

Throw(class, m) == [NoOutcome EXCEPT !.r = "throw", !.exc = class, !.msg = m]

\* The typed failures of ./exceptions.
TypedExceptions ==
  {"FeedRequestNetworkException", "FeedRequestServerStatusException",
   "FeedRequestInternalException", "FeedRequestParseException",
   "FeedRequestFetchException", "FeedRequestBadStatusCodeException",
   "FeedRequestTimedOutException", "FeedArticleNotFoundException"}

----------------------------------------------------------------------------
(* handleFetchResponse, the response interpreter. *)

\* A failed decode that is not caught where it happens escapes as it is.
ServerStatusFailure_NoCatch(statusCode, json) ==
  IF json.ok
    THEN Throw("FeedRequestServerStatusException",
               [NoMsg EXCEPT !.text = "Bad status code for",
                             !.status = statusCode, !.body = json])
    ELSE Throw("SyntaxError", NoMsg)

\* statusCode < 200 || statusCode >= 300: bodyJson starts as {}, the decode
\* is attempted inside try/catch, and ServerStatus is thrown with both.
ServerStatusFailure(statusCode, json) ==
  LET bodyJson == IF json.ok THEN json ELSE EmptyObject
  IN  Throw("FeedRequestServerStatusException",
            [NoMsg EXCEPT !.text = "Bad status code for",
                          !.status = statusCode, !.body = bodyJson])

\* A failure that loses the origin's status code.
BadStatusCodeFailure_Zero(response) ==
  IF ~response.hasResponse
    THEN Throw("TypeError", NoMsg)
    ELSE [Throw("FeedRequestBadStatusCodeException",
                [NoMsg EXCEPT !.text = "Bad status code received for feed request",
                              !.code = 0])
            EXCEPT !.code = 0]

\* requestStatus === BadStatusCode: reading response.response.statusCode of
\* an envelope without the nested object is a TypeError.
BadStatusCodeFailure(response) ==
  IF ~response.hasResponse
    THEN Throw("TypeError", NoMsg)
    ELSE [Throw("FeedRequestBadStatusCodeException",
                [NoMsg EXCEPT !.text = "Bad status code received for feed request",
                              !.code = response.statusCode])
            EXCEPT !.code = response.statusCode]

\* Pending surfaced as a failure.
PendingOutcome_Throws ==
  Throw("FeedRequestInternalException", [NoMsg EXCEPT !.text = "pending"])

\* requestStatus === Pending: return null.
PendingOutcome == Return(JsNull)

\* requestStatus === Success: return response.response.body.
SuccessOutcome(response) ==
  IF ~response.hasResponse
    THEN Throw("TypeError", NoMsg)
    ELSE Return(response.body)

\* An unexpected tag dropped silently.
UnexpectedStatusFailure_Null(requestStatus) == Return(JsNull)

\* The final throw new Error(`Unexpected feed request status in response: ...`).
UnexpectedStatusFailure(requestStatus) ==
  Throw("Error",
        [NoMsg EXCEPT !.text = "Unexpected feed request status in response",
                      !.tag = requestStatus])

HandleFetchResponse(statusCode, json) ==
  IF statusCode < 200 \/ statusCode >= 300
    THEN ServerStatusFailure(statusCode, json)
  ELSE IF ~json.ok
    THEN Throw("SyntaxError", NoMsg)
  ELSE LET response == json
           requestStatus == response.requestStatus
       IN  IF requestStatus = InternalError
             THEN Throw("FeedRequestInternalException",
                        [NoMsg EXCEPT !.text =
                           "Feed requests service encountered internal error while fetching feed"])
           ELSE IF requestStatus = ParseError
             THEN Throw("FeedRequestParseException",
                        [NoMsg EXCEPT !.text = "Invalid feed"])
           ELSE IF requestStatus = FetchError
             THEN Throw("FeedRequestFetchException",
                        [NoMsg EXCEPT !.text =
                           "Fetch on user feeds service failed, likely a network error"])
           ELSE IF requestStatus = BadStatusCode
             THEN BadStatusCodeFailure(response)
           ELSE IF requestStatus = Pending
             THEN PendingOutcome
           ELSE IF requestStatus = Success
             THEN SuccessOutcome(response)
           ELSE IF requestStatus = FetchTimeout
             THEN Throw("FeedRequestTimedOutException",
                        [NoMsg EXCEPT !.text = "Feed request timed out"])
           ELSE UnexpectedStatusFailure(requestStatus)

----------------------------------------------------------------------------
(* The article sets the normalization pipeline (getArticlesFromXml) yields. *)

ArticleIds == {"a", "b"}

Articles ==
  {[flattened |-> [id |-> i, idHash |-> h]] : i \in ArticleIds, h \in {"h1", "h2"}}

SeqsUpTo(S, n) == UNION {[1..k -> S] : k \in 0..n}

ArticleSets == SeqsUpTo(Articles, MaxArticles)

----------------------------------------------------------------------------
(* One invocation of the fetch client at a time; every invocation is       *)
(* independent and keeps no state of the previous one.                     *)

VARIABLES
  pc,              \* where the invocation stands
  op,              \* the public operation that was called
  id,              \* the article id fetchFeedArticle was called with
  options,         \* the options fetch was called with (<<>> is "not given")
  requests,        \* the bodies of the transport requests executed so far
  errs,            \* the causes of the failed attempts, in order
  response,        \* <<>> or <<[statusCode, json]>>: what the transport resolved with
  handled,         \* handleFetchResponse has been run
  fetchOutcome,    \* how fetch settled
  articlesOutcome, \* how fetchFeedArticles settled
  articleOutcome   \* how fetchFeedArticle settled

vars ==
  <<pc, op, id, options, requests, errs, response, handled, fetchOutcome,
    articlesOutcome, articleOutcome>>

(* One invocation of ArticleParserService.flatten at a time; the parser    *)
(* shares no state with the fetch client.                                  *)

VARIABLES
  stage,            \* where the flatten invocation stands
  input,            \* the raw record flatten was called with
  formatOptions,    \* the format options it was called with
  useParserRules,   \* the post-process rules it was called with (<<>> is undefined)
  flattenOutcome,   \* how flatten(input) settled
  reflattenOutcome  \* how flatten(the record flatten returned) settled

parserVars ==
  <<stage, input, formatOptions, useParserRules, flattenOutcome,
    reflattenOutcome>>

FetchOptions ==
  [executeFetchIfNotInCache : {<<>>, <<TRUE>>, <<FALSE>>},
   retries : {<<>>} \cup {<<n>> : n \in 0..MaxRetries}]

\* options?.retries ?? 5
Retries(opts) ==
  IF opts.retries = <<>> THEN DefaultRetries ELSE opts.retries[1]

\* options?.executeFetchIfNotInCache ?? false
ExecuteFetchIfNotExists(opts) ==
  IF opts.executeFetchIfNotInCache = <<>>
    THEN FALSE
    ELSE opts.executeFetchIfNotInCache[1]

\* The JSON body of the POST request.
RequestBody(opts) ==
  [executeFetchIfNotExists |-> ExecuteFetchIfNotExists(opts)]

\* A retry budget that allows one attempt more.
RetryAllowed_OneMore(failed, retries) == failed <= retries + 1

\* pRetry with { retries }: after a failed attempt the operation is run
\* again while the number of failed attempts does not exceed retries.
RetryAllowed(failed, retries) == failed <= retries

\* The first rejection instead of the last.
RejectionReason_First(causes) == causes[1]

\* pRetry rejects with the rejection reason of the last attempt.
RejectionReason(causes) == causes[Len(causes)]

\* catch (err): FeedRequestNetworkException naming err.message.
NetworkFailure(cause) ==
  Throw("FeedRequestNetworkException",
        [NoMsg EXCEPT !.text = "Failed to execute request to feed requests API",
                      !.cause = cause])

\* Where control goes once fetch has settled.
AfterFetch == IF op = "fetch" THEN "done" ELSE "fetchFeedArticles"

\* flatten has not been called.
NoFlattenOutcome ==
  [r |-> "none", error |-> "", intermediate |-> <<>>, seeded |-> <<>>,
   coerced |-> <<>>, extracted |-> <<>>, flattened |-> <<>>]

NoFormatOptions == [dateTimezone |-> <<>>, dateFormat |-> <<>>]

ParserIdle ==
  /\ stage = "idle"
  /\ input = <<>>
  /\ formatOptions = NoFormatOptions
  /\ useParserRules = <<>>
  /\ flattenOutcome = NoFlattenOutcome
  /\ reflattenOutcome = NoFlattenOutcome

\* Nothing has been called yet.
Init ==
  /\ pc = "idle"
  /\ op = ""
  /\ id = ""
  /\ options = [executeFetchIfNotInCache |-> <<>>, retries |-> <<>>]
  /\ requests = <<>>
  /\ errs = <<>>
  /\ response = <<>>
  /\ handled = FALSE
  /\ fetchOutcome = NoOutcome
  /\ articlesOutcome = NoOutcome
  /\ articleOutcome = NoOutcome
  /\ ParserIdle

\* fetch(url, options) called directly.
Fetch(opts) ==
  /\ pc = "idle"
  /\ pc' = "request"
  /\ op' = "fetch"
  /\ options' = opts
  /\ UNCHANGED <<id, requests, errs, response, handled, fetchOutcome,
                 articlesOutcome, articleOutcome>>
  /\ UNCHANGED parserVars

\* fetchFeedArticles(url, { formatOptions }): this.fetch(url,
\* { executeFetchIfNotInCache: true }).
FetchFeedArticles ==
  /\ pc = "idle"
  /\ pc' = "request"
  /\ op' = "fetchFeedArticles"
  /\ options' = [executeFetchIfNotInCache |-> <<TRUE>>, retries |-> <<>>]
  /\ UNCHANGED <<id, requests, errs, response, handled, fetchOutcome,
                 articlesOutcome, articleOutcome>>
  /\ UNCHANGED parserVars

\* fetchFeedArticle(url, id, { formatOptions }): calls fetchFeedArticles.
FetchFeedArticle(i) ==
  /\ pc = "idle"
  /\ pc' = "request"
  /\ op' = "fetchFeedArticle"
  /\ id' = i
  /\ options' = [executeFetchIfNotInCache |-> <<TRUE>>, retries |-> <<>>]
  /\ UNCHANGED <<requests, errs, response, handled, fetchOutcome,
                 articlesOutcome, articleOutcome>>
  /\ UNCHANGED parserVars

\* One attempt of request(serviceUrl, ...) rejects with a transport error:
\* pRetry runs it again, or gives up and fetch throws the Network failure.
RequestFails(cause) ==
  /\ pc = "request"
  /\ requests' = Append(requests, RequestBody(options))
  /\ errs' = Append(errs, cause)
  /\ IF RetryAllowed(Len(errs'), Retries(options))
       THEN /\ pc' = "request"
            /\ UNCHANGED fetchOutcome
       ELSE /\ pc' = AfterFetch
            /\ fetchOutcome' = NetworkFailure(RejectionReason(errs'))
  /\ UNCHANGED <<op, id, options, response, handled, articlesOutcome,
                 articleOutcome>>
  /\ UNCHANGED parserVars

\* A response whose bad status is thrown inside the retried function.
RequestResponds_RetryBadStatus(statusCode, json) ==
  /\ pc = "request"
  /\ requests' = Append(requests, RequestBody(options))
  /\ response' = <<[statusCode |-> statusCode, json |-> json]>>
  /\ pc' = IF statusCode >= 500 /\ Len(requests) < Retries(options)
             THEN "request"
             ELSE "handleFetchResponse"
  /\ UNCHANGED <<op, id, options, errs, handled, fetchOutcome,
                 articlesOutcome, articleOutcome>>
  /\ UNCHANGED parserVars

\* One attempt of request(serviceUrl, ...) resolves with { statusCode, body }:
\* pRetry resolves with it and fetch goes on to handleFetchResponse.
RequestResponds(statusCode, json) ==
  /\ pc = "request"
  /\ requests' = Append(requests, RequestBody(options))
  /\ response' = <<[statusCode |-> statusCode, json |-> json]>>
  /\ pc' = "handleFetchResponse"
  /\ UNCHANGED <<op, id, options, errs, handled, fetchOutcome,
                 articlesOutcome, articleOutcome>>
  /\ UNCHANGED parserVars

\* return this.handleFetchResponse({ statusCode, json: body.json.bind(body) })
HandleResponse ==
  /\ pc = "handleFetchResponse"
  /\ handled' = TRUE
  /\ fetchOutcome' =
       HandleFetchResponse(response[1].statusCode, response[1].json)
  /\ pc' = AfterFetch
  /\ UNCHANGED <<op, id, options, requests, errs, response, articlesOutcome,
                 articleOutcome>>
  /\ UNCHANGED parserVars

\* The object { articles } getArticlesFromXml resolves with.
ArticlesResult(articles) ==
  [NoOutcome EXCEPT !.r = "return", !.value = [t |-> "object", s |-> ""],
                    !.articles = articles]

\* fetchFeedArticles after await this.fetch(...): a failure of fetch
\* propagates, a falsy feedXml gives null, anything else is handed to
\* articlesService.getArticlesFromXml.
ResumeFetchFeedArticles ==
  /\ pc = "fetchFeedArticles"
  /\ IF fetchOutcome.r = "throw"
       THEN articlesOutcome' = fetchOutcome
     ELSE IF Falsy(fetchOutcome.value)
       THEN articlesOutcome' = Return(JsNull)
     ELSE \E articles \in ArticleSets :
            articlesOutcome' = ArticlesResult(articles)
  /\ pc' = IF op = "fetchFeedArticles" THEN "done" ELSE "fetchFeedArticle"
  /\ UNCHANGED <<op, id, options, requests, errs, response, handled,
                 fetchOutcome, articleOutcome>>
  /\ UNCHANGED parserVars

\* A lookup that takes the first article whatever its id.
Find_IgnoresId(articles, i) == IF Len(articles) > 0 THEN 1 ELSE 0

\* articles.find((article) => article.flattened.id === id): the index of the
\* first article with that id, 0 when there is none.
Find(articles, i) ==
  LET hits == {k \in 1..Len(articles) : articles[k].flattened.id = i}
  IN  IF hits = {} THEN 0 ELSE CHOOSE k \in hits : \A j \in hits : k <= j

\* The article fetchFeedArticle resolves with.
ArticleResult(article) ==
  [NoOutcome EXCEPT !.r = "return", !.value = [t |-> "article", s |-> ""],
                    !.articles = <<article>>]

\* fetchFeedArticle after await this.fetchFeedArticles(...).
FetchFeedArticleResult(result, i) ==
  IF result.r = "throw"
    THEN result
  ELSE IF result.value = JsNull
    THEN Throw("Error", [NoMsg EXCEPT !.text = "is still pending"])
  ELSE IF Len(result.articles) = 0
    THEN Return(JsNull)
  ELSE LET k == Find(result.articles, i)
       IN  IF k = 0
             THEN Throw("FeedArticleNotFoundException",
                        [NoMsg EXCEPT !.text = "not found", !.id = i])
             ELSE ArticleResult(result.articles[k])

ResumeFetchFeedArticle ==
  /\ pc = "fetchFeedArticle"
  /\ articleOutcome' = FetchFeedArticleResult(articlesOutcome, id)
  /\ pc' = "done"
  /\ UNCHANGED <<op, id, options, requests, errs, response, handled,
                 fetchOutcome, articlesOutcome>>
  /\ UNCHANGED parserVars

\* The invocation has settled and the caller has its result; nothing of it
\* is kept for the next invocation.
Settle ==
  /\ pc = "done"
  /\ pc' = "idle"
  /\ op' = ""
  /\ id' = ""
  /\ options' = [executeFetchIfNotInCache |-> <<>>, retries |-> <<>>]
  /\ requests' = <<>>
  /\ errs' = <<>>
  /\ response' = <<>>
  /\ handled' = FALSE
  /\ fetchOutcome' = NoOutcome
  /\ articlesOutcome' = NoOutcome
  /\ articleOutcome' = NoOutcome
  /\ UNCHANGED parserVars

Next ==
  \/ \E opts \in FetchOptions : Fetch(opts)
  \/ FetchFeedArticles
  \/ \E i \in ArticleIds : FetchFeedArticle(i)
  \/ \E cause \in Causes : RequestFails(cause)
  \/ \E statusCode \in StatusCodes, json \in JsonResults :
       RequestResponds(statusCode, json)
  \/ HandleResponse
  \/ ResumeFetchFeedArticles
  \/ ResumeFetchFeedArticle
  \/ Settle

Spec == Init /\ [][Next]_<<vars, parserVars>>

----------------------------------------------------------------------------
(* fetchWithGrpc, the streaming channel. *)

\* throw err: the error the call rejected with, as it was caught.
GrpcFailure(cause) ==
  Throw("ServiceError", [NoMsg EXCEPT !.cause = cause])

\* fetchWithGrpc(url, options) called.
FetchWithGrpc(opts) ==
  /\ pc = "idle"
  /\ pc' = "fetchFeed"
  /\ op' = "fetchWithGrpc"
  /\ options' = opts
  /\ UNCHANGED <<id, requests, errs, response, handled, fetchOutcome,
                 articlesOutcome, articleOutcome>>
  /\ UNCHANGED parserVars

\* feedFetcherGrpcPackage.fetchFeed(...) or lastValueFrom(observable)
\* rejects: the catch logs the error and throws it again.
GrpcFails(cause) ==
  /\ pc = "fetchFeed"
  /\ requests' = Append(requests, RequestBody(options))
  /\ errs' = Append(errs, cause)
  /\ fetchOutcome' = GrpcFailure(cause)
  /\ pc' = "done"
  /\ UNCHANGED <<op, id, options, response, handled, articlesOutcome,
                 articleOutcome>>
  /\ UNCHANGED parserVars

\* lastValueFrom(observable) resolves with the last value of the call.
GrpcYields(lastVal) ==
  /\ pc = "fetchFeed"
  /\ requests' = Append(requests, RequestBody(options))
  /\ response' = <<[statusCode |-> 200, json |-> lastVal]>>
  /\ pc' = "handleFetchResponse"
  /\ UNCHANGED <<op, id, options, errs, handled, fetchOutcome,
                 articlesOutcome, articleOutcome>>
  /\ UNCHANGED parserVars

\* return this.handleFetchResponse({ statusCode: 200, json: async () =>
\* lastVal }); a failure it throws passes through the catch unchanged.
GrpcHandleResponse ==
  /\ pc = "handleFetchResponse"
  /\ handled' = TRUE
  /\ fetchOutcome' =
       HandleFetchResponse(response[1].statusCode, response[1].json)
  /\ pc' = "done"
  /\ UNCHANGED <<op, id, options, requests, errs, response, articlesOutcome,
                 articleOutcome>>
  /\ UNCHANGED parserVars

GrpcNext ==
  \/ \E opts \in FetchOptions : FetchWithGrpc(opts)
  \/ \E cause \in Causes : GrpcFails(cause)
  \/ \E lastVal \in Envelopes : GrpcYields(lastVal)
  \/ GrpcHandleResponse
  \/ Settle

GrpcSpec == Init /\ [][GrpcNext]_<<vars, parserVars>>

----------------------------------------------------------------------------
(* ArticleParserService: the values of a raw record.  A string is the      *)
(* sequence of its tokens (a blank, a word, a marker, an element of        *)
(* markup); an object or an array is the sequence of its own enumerable    *)
(* entries <<key, value>>, in order.  A record is such a sequence too.     *)

Str(tokens) == [t |-> "string", s |-> tokens, kids |-> <<>>]

Num(digits) == [t |-> "number", s |-> <<digits>>, kids |-> <<>>]

BoolTrue == [t |-> "boolean", s |-> <<"true">>, kids |-> <<>>]

Null == [t |-> "null", s |-> <<>>, kids |-> <<>>]

Undefined == [t |-> "undefined", s |-> <<>>, kids |-> <<>>]

DateOf(iso) == [t |-> "date", s |-> <<iso>>, kids |-> <<>>]

Obj(entries) == [t |-> "object", s |-> <<>>, kids |-> entries]

\* An array with an element at every index "0", "1", ...
Arr(elements) ==
  [t |-> "array", s |-> <<>>,
   kids |-> [k \in 1..Len(elements) |-> <<ToString(k - 1), elements[k]>>]]

\* new Array(1): an array of length 1 whose only slot is a hole, so that it
\* has no own enumerable key.
SparseArray == [t |-> "sparse", s |-> <<>>, kids |-> <<>>]

\* !value
FalsyValue(v) ==
  \/ v.t \in {"null", "undefined"}
  \/ v.t = "string" /\ v.s = <<>>
  \/ v.t = "number" /\ v.s = <<"0">>

\* Array.isArray(value)
IsArray(v) == v.t \in {"array", "sparse"}

\* value.length of an array
ArrayLength(v) == IF v.t = "sparse" THEN 1 ELSE Len(v.kids)

\* The keys of a record, and the value it holds under a key it has.
Keys(rec) == {rec[k][1] : k \in 1..Len(rec)}

Get(rec, key) == rec[CHOOSE k \in 1..Len(rec) : rec[k][1] = key][2]

\* record[key] = value: an existing key keeps its place.
Put(rec, key, value) ==
  IF key \in Keys(rec)
    THEN [k \in 1..Len(rec) |->
            IF rec[k][1] = key THEN <<key, value>> ELSE rec[k]]
    ELSE Append(rec, <<key, value>>)

RECURSIVE PutAll(_, _)
\* The assignments of a sequence of entries, one after the other.
PutAll(rec, entries) ==
  IF entries = <<>>
    THEN rec
    ELSE PutAll(Put(rec, Head(entries)[1], Head(entries)[2]), Tail(entries))

\* ARTICLE_FIELD_DELIMITER of ../articles/constants; flatten only joins key
\* paths with it, so one representative separator stands for it.
ARTICLE_FIELD_DELIMITER == "__"

RECURSIVE FlatStep(_, _)
\* flatten of the "flat" package, step(object, prev): a non-empty object or
\* array is descended into under the joined key, anything else is stored.
FlatStep(entries, prev) ==
  IF entries = <<>>
    THEN <<>>
    ELSE LET key == Head(entries)[1]
             value == Head(entries)[2]
             newKey == IF prev = ""
                         THEN key
                         ELSE prev \o ARTICLE_FIELD_DELIMITER \o key
         IN  (IF value.t \in {"object", "array"} /\ Len(value.kids) > 0
                THEN FlatStep(value.kids, newKey)
                ELSE << <<newKey, value>> >>)
             \o FlatStep(Tail(entries), prev)

\* flatten(input, { delimiter: ARTICLE_FIELD_DELIMITER })
Flat(record) == PutAll(<<>>, FlatStep(record, ""))

----------------------------------------------------------------------------
(* Strings. *)

Blank == " "

RECURSIVE TrimStart(_)
TrimStart(tokens) ==
  IF tokens # <<>> /\ Head(tokens) = Blank
    THEN TrimStart(Tail(tokens))
    ELSE tokens

RECURSIVE TrimEnd(_)
TrimEnd(tokens) ==
  IF tokens # <<>> /\ tokens[Len(tokens)] = Blank
    THEN TrimEnd(SubSeq(tokens, 1, Len(tokens) - 1))
    ELSE tokens

\* A trim that forgets the end of the string.
Trim_StartOnly(tokens) == TrimStart(tokens)

\* value.trim()
Trim(tokens) == TrimEnd(TrimStart(tokens))

RECURSIVE Join(_)
\* categories.join(","), the elements being strings.
Join(elements) ==
  IF elements = <<>>
    THEN <<>>
  ELSE IF Len(elements) = 1
    THEN elements[1][2].s
  ELSE elements[1][2].s \o <<",">> \o Join(Tail(elements))

RECURSIVE ReplaceFirst(_, _)
\* description.replace(marker, ""): a string pattern replaces the first
\* occurrence only.
ReplaceFirst(tokens, marker) ==
  IF tokens = <<>>
    THEN <<>>
  ELSE IF Head(tokens) = marker
    THEN Tail(tokens)
  ELSE <<Head(tokens)>> \o ReplaceFirst(Tail(tokens), marker)

----------------------------------------------------------------------------
(* runPreProcessRules *)

\* rawArticle.categories
Categories(rawArticle) ==
  IF "categories" \in Keys(rawArticle)
    THEN Get(rawArticle, "categories")
    ELSE Undefined

\* categories.every((item) => typeof item === "string")
EveryItemIsString(categories) ==
  \A k \in 1..Len(categories.kids) : categories.kids[k][2].t = "string"

\* A pre-processing that joins whatever the array holds.
RunPreProcessRules_AnyArray(rawArticle) ==
  LET categories == Categories(rawArticle)
  IN  IF IsArray(categories)
        THEN << <<"processed::categories", Str(Join(categories.kids))>> >>
        ELSE <<>>

RunPreProcessRules(rawArticle) ==
  LET categories == Categories(rawArticle)
  IN  IF IsArray(categories) /\ EveryItemIsString(categories)
        THEN << <<"processed::categories", Str(Join(categories.kids))>> >>
        ELSE <<>>

----------------------------------------------------------------------------
(* The coercion pass of flatten: Object.entries(flattened).forEach(...) *)

\* dayjs(value).tz(useTimezone).format() or .format(dateFormat): the
\* rendering depends on the date, the timezone and the pattern.
FormatDate(value, fo) ==
  LET useTimezone ==
        IF fo.dateTimezone = <<>> \/ fo.dateTimezone = <<"">>
          THEN "UTC"
          ELSE fo.dateTimezone[1]
      stringDate == value.s[1] \o "@" \o useTimezone
  IN  IF fo.dateFormat = <<>> \/ fo.dateFormat = <<"">>
        THEN <<stringDate>>
        ELSE <<stringDate \o "#" \o fo.dateFormat[1]>>

\* String(value) of a value that is none of the above.
StringOf(value) == value.s

NonEmptyObjectError == "Non-empty object found in flattened record"

NonEmptyArrayError == "Non-empty array found in flattened record"

\* A pass that stores a container as it finds it.
CoerceEntry_NoArrayCheck(acc, key, value) ==
  IF acc.error # ""
    THEN acc
  ELSE IF FalsyValue(value)
    THEN acc
  ELSE IF value.t = "string"
    THEN IF Len(Trim(value.s)) > 0
           THEN [acc EXCEPT !.rec = Put(acc.rec, key, Str(Trim(value.s)))]
           ELSE acc
  ELSE IF value.t = "date"
    THEN [acc EXCEPT !.rec = Put(acc.rec, key, Str(FormatDate(value, acc.fo)))]
  ELSE IF value.t = "object"
    THEN IF Len(value.kids) > 0
           THEN [acc EXCEPT !.error = NonEmptyObjectError]
           ELSE acc
  ELSE [acc EXCEPT !.rec = Put(acc.rec, key, value)]

\* The body of the forEach callback for one entry; acc holds newRecord,
\* the format options and the error thrown so far, after which nothing
\* more is done.
CoerceEntry(acc, key, value) ==
  IF acc.error # ""
    THEN acc
  ELSE IF FalsyValue(value)
    THEN acc
  ELSE IF value.t = "string"
    THEN IF Len(Trim(value.s)) > 0
           THEN [acc EXCEPT !.rec = Put(acc.rec, key, Str(Trim(value.s)))]
           ELSE acc
  ELSE IF value.t = "date"
    THEN [acc EXCEPT !.rec = Put(acc.rec, key, Str(FormatDate(value, acc.fo)))]
  ELSE IF value.t = "object"
    THEN IF Len(value.kids) > 0
           THEN [acc EXCEPT !.error = NonEmptyObjectError]
           ELSE acc
  ELSE IF IsArray(value)
    THEN IF ArrayLength(value) > 0
           THEN [acc EXCEPT !.error = NonEmptyArrayError]
           ELSE acc
  ELSE [acc EXCEPT !.rec = Put(acc.rec, key, Str(StringOf(value)))]

RECURSIVE CoerceFrom(_, _)
CoerceFrom(acc, entries) ==
  IF entries = <<>>
    THEN acc
    ELSE CoerceFrom(CoerceEntry(acc, Head(entries)[1], Head(entries)[2]),
                    Tail(entries))

\* newRecord after the forEach over the flattened entries, newRecord being
\* seeded with the result of the pre-processing.
Coerce(seeded, flattened, fo) ==
  CoerceFrom([rec |-> seeded, fo |-> fo, error |-> ""], flattened)

----------------------------------------------------------------------------
(* extractExtraInfo: the elements of markup a string may hold. *)

\* An opening tag that is never closed: valid(inputString) is false.
UnclosedTag == "<p>"

\* The src of an <img> token, "" when the element has no src.
ImageSource(token) ==
  CASE token = "<img src=u1>" -> "u1"
    [] token = "<img src=u2>" -> "u2"
    [] OTHER -> ""

\* The href of an <a> token, "" when the element has no href.
AnchorTarget(token) ==
  CASE token = "<a href=v1>" -> "v1"
    [] token = "<a href=v2>" -> "v2"
    [] token = "<a href=&lt;img src=u1&gt;>" -> "<img src=u1>"
    [] OTHER -> ""

RECURSIVE Sources(_)
\* getElementsByTagName("img").map(src).filter(!!src), in document order.
Sources(tokens) ==
  IF tokens = <<>>
    THEN <<>>
    ELSE (IF ImageSource(Head(tokens)) # ""
            THEN <<ImageSource(Head(tokens))>>
            ELSE <<>>)
         \o Sources(Tail(tokens))

RECURSIVE Targets(_)
\* querySelectorAll("a").map(href).filter(!!href), in document order.
Targets(tokens) ==
  IF tokens = <<>>
    THEN <<>>
    ELSE (IF AnchorTarget(Head(tokens)) # ""
            THEN <<AnchorTarget(Head(tokens))>>
            ELSE <<>>)
         \o Targets(Tail(tokens))

\* valid(inputString)
IsValidMarkup(tokens) == \A k \in 1..Len(tokens) : tokens[k] # UnclosedTag

ExtractExtraInfo(inputString) ==
  IF ~IsValidMarkup(inputString)
    THEN [images |-> <<>>, anchors |-> <<>>]
    ELSE [images |-> Sources(inputString), anchors |-> Targets(inputString)]

\* Keys numbered from 0.
ExtractedEntries_FromZero(key, kind, list) ==
  [i \in 1..Len(list) |->
     <<"extracted::" \o key \o "::" \o kind \o ToString(i - 1),
       Str(<<list[i]>>)>>]

\* newRecord[`extracted::${key}::image${i + 1}`] = image, for every image
\* (kind "image") or anchor (kind "anchor") of the list.
ExtractedEntries(key, kind, list) ==
  [i \in 1..Len(list) |->
     <<"extracted::" \o key \o "::" \o kind \o ToString(i),
       Str(<<list[i]>>)>>]

RECURSIVE ExtractFrom(_, _)
\* The loop over entries, the entries of newRecord as they stood before it.
ExtractFrom(newRecord, entries) ==
  IF entries = <<>>
    THEN newRecord
    ELSE LET key == Head(entries)[1]
             value == Head(entries)[2]
             info == ExtractExtraInfo(value.s)
             withImages ==
               PutAll(newRecord, ExtractedEntries(key, "image", info.images))
             withAnchors ==
               PutAll(withImages, ExtractedEntries(key, "anchor", info.anchors))
         IN  ExtractFrom(withAnchors, Tail(entries))

\* const entries = Object.entries(newRecord); for (...) { ... }
Extract(newRecord) == ExtractFrom(newRecord, newRecord)

----------------------------------------------------------------------------
(* runPostProcessRules *)

\* PostProcessParserRule.RedditCommentLink
RedditCommentLink == "RedditCommentLink"

\* The rule lists a caller may pass: undefined, an empty list, the rule, a
\* rule the parser does not know.
RuleLists ==
  {<<>>, << <<>> >>, << <<RedditCommentLink>> >>, << <<"UnknownRule">> >>,
   << <<"UnknownRule", RedditCommentLink>> >>}

\* rules.includes(PostProcessParserRule.RedditCommentLink)
Includes(rules, rule) == \E k \in 1..Len(rules) : rules[k] = rule

\* rules is <<>> for undefined and <<list>> for a list.
RunPostProcessRules(flattenedArticle, rules) ==
  IF rules = <<>> \/ rules = << <<>> >>
    THEN flattenedArticle
    ELSE IF /\ Includes(rules[1], RedditCommentLink)
            /\ "description" \in Keys(flattenedArticle)
            /\ Get(flattenedArticle, "description").t = "string"
           THEN Put(flattenedArticle, "processed::description::reddit1",
                    Str(ReplaceFirst(
                          ReplaceFirst(Get(flattenedArticle, "description").s,
                                       "[link]"),
                          "[comments]")))
           ELSE flattenedArticle

----------------------------------------------------------------------------
(* flatten *)

\* flatten(input, { useParserRules, formatOptions }): the record it
\* returns, or the error it throws, with the records it went through.
Flatten(record, fo, rules) ==
  LET flattened == Flat(record)
      seeded == RunPreProcessRules(record)
      coerced == Coerce(seeded, flattened, fo)
      extracted == Extract(coerced.rec)
  IN  IF coerced.error # ""
        THEN [NoFlattenOutcome EXCEPT
                !.r = "throw", !.error = coerced.error,
                !.intermediate = flattened, !.seeded = seeded]
        ELSE [r |-> "return", error |-> "", intermediate |-> flattened,
              seeded |-> seeded, coerced |-> coerced.rec,
              extracted |-> extracted,
              flattened |-> RunPostProcessRules(extracted, rules)]

----------------------------------------------------------------------------
(* The raw records, format options and rule lists flatten is called with. *)

\* The key is not in the record.
Absent == [t |-> "absent", s |-> <<>>, kids |-> <<>>]

DescriptionValues ==
  {Absent,
   Str(<<>>),
   Str(<<Blank>>),
   Str(<<Blank, "x", Blank>>),
   Str(<<"hello", Blank, "[link]", Blank, "world", Blank, "[comments]">>),
   Str(<<"[link]", "x", "[link]">>),
   Str(<<"<img src=u1>", "<a href=v1>", "<img>", "<img src=u2>", "<a>">>),
   Str(<<"<a href=&lt;img src=u1&gt;>">>),
   Str(<<UnclosedTag, "<img src=u1>">>),
   Num("7"),
   Obj(<< <<"b", Str(<<Blank, "y">>)>>, <<"c", Num("0")>> >>)}

CategoriesValues ==
  {Absent,
   Str(<<"x">>),
   Arr(<<>>),
   Arr(<<Str(<<"x">>), Str(<<"y">>)>>),
   Arr(<<Str(<<"x">>), Num("2")>>),
   Arr(<<Str(<<Blank, "x">>)>>),
   Arr(<<Str(<<>>)>>),
   SparseArray}

SeededKeyValues == {Absent, Str(<<Blank, "z", Blank>>), Num("0")}

OtherValues ==
  {Absent,
   Null,
   BoolTrue,
   DateOf("2023-01-01T00:00:00Z"),
   Obj(<<>>),
   Obj(<< <<"b", Obj(<< <<"c", Str(<<"x">>)>> >>)>>,
          <<"d", Arr(<<Str(<<"<a href=v2>">>)>>)>> >>),
   Arr(<<>>),
   SparseArray}

\* The record with these values under its four keys, in this order.
RawRecord(description, categories, seededKey, other) ==
  SelectSeq(<< <<"description", description>>,
               <<"categories", categories>>,
               <<"processed::categories", seededKey>>,
               <<"a", other>> >>,
            LAMBDA e : e[2] # Absent)

RawRecords ==
  {RawRecord(d, c, p, a) :
     d \in DescriptionValues, c \in CategoriesValues,
     p \in SeededKeyValues, a \in OtherValues}

FormatOptionsValues ==
  {NoFormatOptions,
   [dateTimezone |-> <<"America/New_York">>, dateFormat |-> <<>>],
   [dateTimezone |-> <<>>, dateFormat |-> <<"YYYY">>]}

----------------------------------------------------------------------------
(* The parser as a state machine. *)

\* parserService.flatten(record, { formatOptions, useParserRules }) runs
\* to its end.
CallFlatten(record, fo, rules) ==
  /\ stage = "idle"
  /\ input' = record
  /\ formatOptions' = fo
  /\ useParserRules' = rules
  /\ flattenOutcome' = Flatten(record, fo, rules)
  /\ stage' = "flattened"
  /\ UNCHANGED reflattenOutcome
  /\ UNCHANGED vars

\* The record flatten returned is given to flatten again, with the same
\* format options and rules.
CallFlattenAgain ==
  /\ stage = "flattened"
  /\ flattenOutcome.r = "return"
  /\ reflattenOutcome' =
       Flatten(flattenOutcome.flattened, formatOptions, useParserRules)
  /\ stage' = "reflattened"
  /\ UNCHANGED <<input, formatOptions, useParserRules, flattenOutcome>>
  /\ UNCHANGED vars

\* The caller has its result; the parser keeps nothing.
ParserReturn ==
  /\ stage \in {"flattened", "reflattened"}
  /\ stage' = "idle"
  /\ input' = <<>>
  /\ formatOptions' = NoFormatOptions
  /\ useParserRules' = <<>>
  /\ flattenOutcome' = NoFlattenOutcome
  /\ reflattenOutcome' = NoFlattenOutcome
  /\ UNCHANGED vars

ParserNext ==
  \/ /\ stage = "idle"
     /\ \E record \in RawRecords, fo \in FormatOptionsValues,
           rules \in RuleLists :
          CallFlatten(record, fo, rules)
  \/ CallFlattenAgain
  \/ ParserReturn

ParserSpec == Init /\ [][ParserNext]_<<vars, parserVars>>

----------------------------------------------------------------------------
(* Vocabulary of the properties. *)

FetchSettled == fetchOutcome.r # "none"

GotResponse == response # <<>>

Is2xx(statusCode) == statusCode >= 200 /\ statusCode < 300

\* handleFetchResponse has run on a 2xx response whose body decoded.
Interpreted2xx ==
  /\ handled
  /\ Is2xx(response[1].statusCode)
  /\ response[1].json.ok

Envelope == response[1].json

----------------------------------------------------------------------------
(* C1 *)

\* C1, as stated: one invocation of fetch executes the transport request at
\* most N times, N being the retry budget (5 when the caller gives none).
C1_AtMostRetriesRequests == Len(requests) <= Retries(options)

\* C1, amended: one invocation of fetch executes the transport request at
\* most N + 1 times: the first attempt and at most N retries.
C1_AtMostRetriesPlusOneRequests == Len(requests) <= Retries(options) + 1

\* Every attempt of an invocation failed and the budget was used up.
C1_Witness ==
  /\ pc = "done"
  /\ options.retries = <<>>
  /\ Len(errs) = Len(requests)
  /\ Len(requests) = DefaultRetries + 1

----------------------------------------------------------------------------
(* C2 *)

\* C2: the first transport attempt that receives a response ends the retry
\* loop: while the invocation lasts no further request is made and the
\* response is not replaced, whatever its status code or requestStatus; and
\* fetch settles as the interpretation of exactly that response, with no
\* earlier transport failure surfaced.
C2_FirstResponseEndsRetry ==
  /\ [](GotResponse /\ FetchSettled =>
          /\ fetchOutcome =
               HandleFetchResponse(response[1].statusCode, response[1].json)
          /\ fetchOutcome.exc # "FeedRequestNetworkException"
          /\ fetchOutcome.msg.cause = "")
  /\ [][GotResponse /\ pc # "done" =>
          /\ requests' = requests
          /\ response' = response
          /\ errs' = errs]_vars

\* Three transport failures, then a successful envelope inside the budget.
C2_Witness ==
  /\ pc = "done"
  /\ op = "fetch"
  /\ Len(errs) = 3
  /\ GotResponse
  /\ response[1].statusCode = 200
  /\ Envelope.requestStatus = Success
  /\ fetchOutcome = Return(JsString("<rss/>"))

----------------------------------------------------------------------------
(* C3 *)

----------------------------------------------------------------------------
(* C4 *)

\* C4: for every status code outside [200, 300) the interpreter fails with
\* ServerStatus, whatever the body holds and also when decoding it fails;
\* the detail carries the status code and the decoded body, or the empty
\* object when the decode failed.
C4_Non2xxIsServerStatus ==
  (handled /\ ~Is2xx(response[1].statusCode)) =>
    /\ fetchOutcome.r = "throw"
    /\ fetchOutcome.exc = "FeedRequestServerStatusException"
    /\ fetchOutcome.msg.status = response[1].statusCode
    /\ fetchOutcome.msg.body =
         (IF Envelope.ok THEN Envelope ELSE EmptyObject)

\* A non-2xx response whose body cannot be decoded.
C4_Witness ==
  /\ handled
  /\ response[1].statusCode = 500
  /\ ~Envelope.ok
  /\ fetchOutcome.exc = "FeedRequestServerStatusException"
  /\ fetchOutcome.msg.body = EmptyObject

----------------------------------------------------------------------------
(* C5 *)

\* C5: for a 2xx status code and a decoded envelope, the tag decides the
\* outcome: internal_error gives Internal, parse_error Parse, fetch_error
\* Fetch, fetch_timeout Timeout, each with no payload; bad_status_code gives
\* BadStatusCode carrying the statusCode of the nested response object, and
\* success returns the body of the nested response object.
C5_TagDecidesOutcome ==
  Interpreted2xx =>
    /\ Envelope.requestStatus = InternalError =>
         fetchOutcome =
           Throw("FeedRequestInternalException",
                 [NoMsg EXCEPT !.text =
                    "Feed requests service encountered internal error while fetching feed"])
    /\ Envelope.requestStatus = ParseError =>
         fetchOutcome =
           Throw("FeedRequestParseException",
                 [NoMsg EXCEPT !.text = "Invalid feed"])
    /\ Envelope.requestStatus = FetchError =>
         fetchOutcome =
           Throw("FeedRequestFetchException",
                 [NoMsg EXCEPT !.text =
                    "Fetch on user feeds service failed, likely a network error"])
    /\ Envelope.requestStatus = FetchTimeout =>
         fetchOutcome =
           Throw("FeedRequestTimedOutException",
                 [NoMsg EXCEPT !.text = "Feed request timed out"])
    /\ (Envelope.requestStatus = BadStatusCode /\ Envelope.hasResponse) =>
         /\ fetchOutcome.r = "throw"
         /\ fetchOutcome.exc = "FeedRequestBadStatusCodeException"
         /\ fetchOutcome.code = Envelope.statusCode
         /\ fetchOutcome.msg.code = Envelope.statusCode
    /\ (Envelope.requestStatus = Success /\ Envelope.hasResponse) =>
         fetchOutcome = Return(Envelope.body)

\* The example of the specification: bad_status_code with statusCode 429.
C5_Witness ==
  /\ Interpreted2xx
  /\ Envelope.requestStatus = BadStatusCode
  /\ Envelope.hasResponse
  /\ Envelope.statusCode = 429
  /\ fetchOutcome.code = 429

----------------------------------------------------------------------------
(* C6 *)

\* C6: when the envelope of a 2xx response says pending, fetch returns null
\* and raises no failure of any kind.
C6_PendingReturnsNull ==
  (Interpreted2xx /\ Envelope.requestStatus = Pending) =>
    /\ fetchOutcome.r = "return"
    /\ fetchOutcome.value = JsNull
    /\ fetchOutcome.exc = ""

\* fetch called directly settles on a pending envelope.
C6_Witness ==
  /\ pc = "done"
  /\ op = "fetch"
  /\ Interpreted2xx
  /\ Envelope.requestStatus = Pending
  /\ fetchOutcome = Return(JsNull)

----------------------------------------------------------------------------
(* C7 *)

----------------------------------------------------------------------------
(* C8 *)

\* The envelope fetch interpreted was tagged pending, and fetch returned.
FetchIsPending ==
  /\ fetchOutcome.r = "return"
  /\ Interpreted2xx
  /\ Envelope.requestStatus = Pending

\* The envelope fetch interpreted was tagged success, and fetch returned
\* its payload.
FetchIsSuccess ==
  /\ fetchOutcome.r = "return"
  /\ Interpreted2xx
  /\ Envelope.requestStatus = Success

\* C8: fetchFeedArticles calls fetch with executeIfNotCached = true, returns
\* null exactly when the fetch outcome is Pending, and for every Success
\* outcome, whatever the payload, returns the article set of the pipeline.
C8_NullExactlyWhenPending ==
  articlesOutcome.r # "none" =>
    /\ \A k \in 1..Len(requests) : requests[k].executeFetchIfNotExists
    /\ (articlesOutcome = Return(JsNull)) <=> FetchIsPending
    /\ FetchIsSuccess =>
         /\ articlesOutcome.r = "return"
         /\ articlesOutcome.value.t = "object"
         /\ articlesOutcome.articles \in ArticleSets

----------------------------------------------------------------------------
(* C9 *)

\* The error fetchFeedArticle throws for a request that is still pending.
StillPending(outcome) ==
  /\ outcome.r = "throw"
  /\ outcome.exc = "Error"
  /\ outcome.msg.text = "is still pending"

\* C9: when the underlying fetch is Pending, fetchFeedArticle fails with the
\* "still pending" condition, which is neither ArticleNotFound nor a fetch
\* failure kind, and does not return null; and it raises that condition
\* only when the fetch outcome is Pending.
C9_StillPendingOnlyWhenPending ==
  articleOutcome.r # "none" =>
    /\ FetchIsPending =>
         /\ StillPending(articleOutcome)
         /\ articleOutcome.exc \notin TypedExceptions
    /\ StillPending(articleOutcome) => FetchIsPending

----------------------------------------------------------------------------
(* C10 *)

\* fetchFeedArticles resolved with a completed article set.
Completed == articlesOutcome.r = "return" /\ articlesOutcome.value.t = "object"

HasId(articles, i) == \E k \in 1..Len(articles) : articles[k].flattened.id = i

\* ArticleNotFound when no article of the set has the id, otherwise an
\* article of the set with that id.
FoundOrNotFound ==
  IF HasId(articlesOutcome.articles, id)
    THEN /\ articleOutcome.r = "return"
         /\ articleOutcome.value.t = "article"
         /\ \E k \in 1..Len(articlesOutcome.articles) :
              articleOutcome.articles = <<articlesOutcome.articles[k]>>
         /\ articleOutcome.articles[1].flattened.id = id
    ELSE /\ articleOutcome.r = "throw"
         /\ articleOutcome.exc = "FeedArticleNotFoundException"
         /\ articleOutcome.msg.id = id

\* C10, as stated: for every completed article set, empty or not, and every
\* id, fetchFeedArticle fails with ArticleNotFound when no article of the
\* set has that id and otherwise returns an article of the set with that id.
C10_NotFoundForEverySet ==
  (articleOutcome.r # "none" /\ Completed) => FoundOrNotFound

\* C10, amended: that holds for every non-empty completed article set; for
\* the empty completed set fetchFeedArticle returns null and raises nothing.
C10_NotFoundForNonEmptySet ==
  (articleOutcome.r # "none" /\ Completed) =>
    IF Len(articlesOutcome.articles) = 0
      THEN articleOutcome = Return(JsNull)
      ELSE FoundOrNotFound

\* The requested id is that of the second article only, which is returned.
C10_Witness ==
  /\ pc = "done"
  /\ Completed
  /\ Len(articlesOutcome.articles) = 2
  /\ articlesOutcome.articles[1].flattened.id # id
  /\ articlesOutcome.articles[2].flattened.id = id
  /\ articleOutcome = ArticleResult(articlesOutcome.articles[2])

----------------------------------------------------------------------------
(* C11 *)

\* C11: on the streaming channel a transport failure of the call is retried
\* within the retry budget and, once the budget is used up, surfaces as a
\* Network failure; a value the call yields is interpreted with the fixed
\* status 200 by the same response interpreter.
C11_GrpcRetriesThenNetwork ==
  /\ (FetchSettled /\ ~GotResponse) =>
       /\ fetchOutcome.exc = "FeedRequestNetworkException"
       /\ fetchOutcome.msg.cause = errs[Len(errs)]
       /\ Retries(options) > 0 => Len(requests) > 1
  /\ (FetchSettled /\ GotResponse) =>
       /\ response[1].statusCode = 200
       /\ fetchOutcome = HandleFetchResponse(200, response[1].json)

----------------------------------------------------------------------------
(* C16 *)

\* The failures the response interpreter is meant to end in.
InterpreterFailureKinds ==
  {"FeedRequestServerStatusException", "FeedRequestInternalException",
   "FeedRequestParseException", "FeedRequestFetchException",
   "FeedRequestBadStatusCodeException", "FeedRequestTimedOutException"}

\* C16: for every status code and every behaviour of the body decoder, one
\* run of the response interpreter ends in one outcome of the closed set:
\* the Success payload, Pending, or a failure of one of the six typed kinds;
\* no untyped error escapes it.
C16_ClosedOutcomeSet ==
  handled =>
    \/ /\ fetchOutcome.r = "return"
       /\ fetchOutcome.value = JsNull \/ fetchOutcome.value.t = "string"
    \/ /\ fetchOutcome.r = "throw"
       /\ fetchOutcome.exc \in InterpreterFailureKinds

----------------------------------------------------------------------------
(* Vocabulary of the properties of the parser. *)

Returned(outcome) == outcome.r = "return"

NonEmptyContainer(v) ==
  \/ v.t = "object" /\ Len(v.kids) > 0
  \/ IsArray(v) /\ ArrayLength(v) > 0

HoldsContainer(rec) == \E k \in 1..Len(rec) : NonEmptyContainer(rec[k][2])

\* Both records have the key with the same value, or neither has it.
AgreeOn(rec1, rec2, key) ==
  IF key \in Keys(rec1)
    THEN key \in Keys(rec2) /\ Get(rec2, key) = Get(rec1, key)
    ELSE key \notin Keys(rec2)

----------------------------------------------------------------------------
(* C12 *)

\* C12: for every raw record flatten either aborts with the malformed-record
\* error or returns a record none of whose values is a non-empty object or
\* a non-empty array; and it aborts whenever a non-empty object or array is
\* among the intermediate flattened values.
C12_FlattenScalarizesOrAborts ==
  stage # "idle" =>
    /\ flattenOutcome.r \in {"return", "throw"}
    /\ flattenOutcome.r = "throw" =>
         flattenOutcome.error \in {NonEmptyObjectError, NonEmptyArrayError}
    /\ Returned(flattenOutcome) => ~HoldsContainer(flattenOutcome.flattened)
    /\ HoldsContainer(flattenOutcome.intermediate) =>
         flattenOutcome.r = "throw"

\* An array that the flattening leaves whole makes flatten abort.
C12_Witness ==
  /\ stage = "flattened"
  /\ HoldsContainer(flattenOutcome.intermediate)
  /\ flattenOutcome.r = "throw"
  /\ flattenOutcome.error = NonEmptyArrayError

----------------------------------------------------------------------------
(* C13 *)

\* C13: pre-processing writes processed::categories, holding the elements
\* joined by commas, exactly when the categories field of the raw record is
\* an array whose every element is a string; for any other categories value
\* it contributes no key at all.
C13_PreProcessCategories ==
  stage # "idle" =>
    LET categories == Categories(input)
    IN  IF /\ categories.t \in {"array", "sparse"}
           /\ \A k \in 1..Len(categories.kids) :
                categories.kids[k][2].t = "string"
          THEN /\ Keys(flattenOutcome.seeded) = {"processed::categories"}
               /\ Get(flattenOutcome.seeded, "processed::categories") =
                    Str(Join(categories.kids))
          ELSE flattenOutcome.seeded = <<>>

\* The example of the specification: ["x", "y"] gives "x,y".
C13_Witness ==
  /\ stage = "flattened"
  /\ Categories(input) = Arr(<<Str(<<"x">>), Str(<<"y">>)>>)
  /\ flattenOutcome.seeded =
       << <<"processed::categories", Str(<<"x", ",", "y">>)>> >>

----------------------------------------------------------------------------
(* C14 *)

Reddit1 == "processed::description::reddit1"

Markers == {"[link]", "[comments]"}

RuleRequested ==
  /\ useParserRules # <<>>
  /\ Includes(useParserRules[1], RedditCommentLink)

\* C14: the record runPostProcessRules returns agrees with its input on
\* every key other than processed::description::reddit1, description
\* included; that key is written only when RedditCommentLink is among the
\* requested rules and description is a string, and then holds description
\* with the markers [link] and [comments] stripped, so that the stored
\* value contains neither marker; with an empty or absent rule list, or
\* only unrecognized rules, the record is returned unchanged.
C14_PostProcessStripsMarkers ==
  (stage # "idle" /\ Returned(flattenOutcome)) =>
    LET before == flattenOutcome.extracted
        after == flattenOutcome.flattened
        applies == RuleRequested /\ "description" \in Keys(before)
    IN  /\ \A key \in (Keys(before) \cup Keys(after)) \ {Reddit1} :
             AgreeOn(before, after, key)
        /\ ~applies => after = before
        /\ applies =>
             /\ Reddit1 \in Keys(after)
             /\ \A k \in 1..Len(Get(after, Reddit1).s) :
                  Get(after, Reddit1).s[k] \notin Markers
             /\ Get(after, Reddit1).s =
                  SelectSeq(Get(before, "description").s,
                            LAMBDA token : token \notin Markers)

----------------------------------------------------------------------------
(* C15 *)

\* C15: when the record flatten returned is given to flatten again with
\* the same format options and rules, every key of the first output is in
\* the second output with the same value.
C15_ReflattenKeepsEveryKey ==
  stage = "reflattened" =>
    /\ Returned(reflattenOutcome)
    /\ \A key \in Keys(flattenOutcome.flattened) :
         /\ key \in Keys(reflattenOutcome.flattened)
         /\ Get(reflattenOutcome.flattened, key) =
              Get(flattenOutcome.flattened, key)

----------------------------------------------------------------------------
(* C17 *)

AllBlank(tokens) == \A i \in 1..Len(tokens) : tokens[i] = Blank

\* trimmed is tokens without its leading and trailing blanks, and is not
\* empty.
IsTrimmedFormOf(trimmed, tokens) ==
  /\ trimmed # <<>>
  /\ trimmed[1] # Blank
  /\ trimmed[Len(trimmed)] # Blank
  /\ \E a, b \in 0..Len(tokens) :
       /\ a + b <= Len(tokens)
       /\ trimmed = SubSeq(tokens, a + 1, Len(tokens) - b)
       /\ \A i \in 1..a : tokens[i] = Blank
       /\ \A i \in (Len(tokens) - b + 1)..Len(tokens) : tokens[i] = Blank

\* C17: in the coercion pass a falsy intermediate value produces no key,
\* so that the record is at that key as pre-processing left it; a string is
\* stored under its flattened key as its trimmed form when that is not
\* empty, and produces no key otherwise; the value the pass writes replaces
\* the one pre-processing seeded under the same key.
C17_CoercionDropsAndTrims ==
  (stage # "idle" /\ Returned(flattenOutcome)) =>
    LET intermediate == flattenOutcome.intermediate
        seeded == flattenOutcome.seeded
        coerced == flattenOutcome.coerced
    IN  \A k \in 1..Len(intermediate) :
          LET key == intermediate[k][1]
              value == intermediate[k][2]
          IN  /\ FalsyValue(value) => AgreeOn(seeded, coerced, key)
              /\ (value.t = "string" /\ AllBlank(value.s)) =>
                   AgreeOn(seeded, coerced, key)
              /\ (value.t = "string" /\ ~AllBlank(value.s)) =>
                   /\ key \in Keys(coerced)
                   /\ Get(coerced, key).t = "string"
                   /\ IsTrimmedFormOf(Get(coerced, key).s, value.s)

\* Pre-processing seeded "x,y" under processed::categories and the raw
\* record holds " z " under the same key: the record ends with "z".
C17_Witness ==
  /\ stage = "flattened"
  /\ Returned(flattenOutcome)
  /\ "processed::categories" \in Keys(flattenOutcome.seeded)
  /\ Get(flattenOutcome.seeded, "processed::categories") =
       Str(<<"x", ",", "y">>)
  /\ "processed::categories" \in Keys(flattenOutcome.intermediate)
  /\ Get(flattenOutcome.intermediate, "processed::categories") =
       Str(<<Blank, "z", Blank>>)
  /\ Get(flattenOutcome.coerced, "processed::categories") = Str(<<"z">>)

----------------------------------------------------------------------------
(* C18 *)

\* The image sources and anchor targets of a value, in document order;
\* none when the value is not valid markup.
ImagesOf(v) ==
  IF \E i \in 1..Len(v.s) : v.s[i] = UnclosedTag
    THEN <<>>
    ELSE SelectSeq(v.s, LAMBDA token : ImageSource(token) # "")

AnchorsOf(v) ==
  IF \E i \in 1..Len(v.s) : v.s[i] = UnclosedTag
    THEN <<>>
    ELSE SelectSeq(v.s, LAMBDA token : AnchorTarget(token) # "")

ImageKey(key, i) == "extracted::" \o key \o "::image" \o ToString(i)

AnchorKey(key, i) == "extracted::" \o key \o "::anchor" \o ToString(i)

\* C18: for every key k of the record after the coercion pass whose value
\* is markup with n image sources and m anchor targets, extraction adds
\* exactly extracted::k::image1..n and extracted::k::anchor1..m, the i-th
\* holding the i-th source or target in document order; a value that is not
\* markup adds no key, and nothing is extracted from the keys extraction
\* added.
C18_ExtractionAddsExactlyTheLinks ==
  (stage # "idle" /\ Returned(flattenOutcome)) =>
    LET coerced == flattenOutcome.coerced
        extracted == flattenOutcome.extracted
        added ==
          UNION {{ImageKey(key, i) : i \in 1..Len(ImagesOf(Get(coerced, key)))}
                 \cup
                 {AnchorKey(key, i) : i \in 1..Len(AnchorsOf(Get(coerced, key)))}
                 : key \in Keys(coerced)}
    IN  /\ Keys(extracted) = Keys(coerced) \cup added
        /\ \A key \in Keys(coerced) :
             /\ Get(extracted, key) = Get(coerced, key)
             /\ \A i \in 1..Len(ImagesOf(Get(coerced, key))) :
                  Get(extracted, ImageKey(key, i)) =
                    Str(<<ImageSource(ImagesOf(Get(coerced, key))[i])>>)
             /\ \A i \in 1..Len(AnchorsOf(Get(coerced, key))) :
                  Get(extracted, AnchorKey(key, i)) =
                    Str(<<AnchorTarget(AnchorsOf(Get(coerced, key))[i])>>)

\* A description with two images that have a source, one without, one
\* anchor with a target and one without.
C18_Witness ==
  /\ stage = "flattened"
  /\ Returned(flattenOutcome)
  /\ "description" \in Keys(flattenOutcome.coerced)
  /\ Get(flattenOutcome.coerced, "description") =
       Str(<<"<img src=u1>", "<a href=v1>", "<img>", "<img src=u2>", "<a>">>)
  /\ Get(flattenOutcome.extracted, "extracted::description::image1") =
       Str(<<"u1">>)
  /\ Get(flattenOutcome.extracted, "extracted::description::image2") =
       Str(<<"u2">>)
  /\ Get(flattenOutcome.extracted, "extracted::description::anchor1") =
       Str(<<"v1">>)
  /\ "extracted::description::image3" \notin Keys(flattenOutcome.extracted)
  /\ "extracted::description::anchor2" \notin Keys(flattenOutcome.extracted)

====
